---- MODULE Spec2Model ----
(***************************************************************************)
(* A model of src/src/game/game.rs: Game::new (the bootstrap sequence) and *)
(* Game::run (the frame loop).                                             *)
(*                                                                         *)
(* Three specifications share the module.  Spec is Game::run from its      *)
(* entry on an assembled Game; SpecFair is Spec with every step that can   *)
(* be taken eventually taken; SpecNew is Game::new from a configuration to *)
(* its result, followed by the drop of what it built.                      *)
(*                                                                         *)
(* Time.  Timestamps (f64 seconds in the code) are integers on an abstract *)
(* scale.  The scale keeps the order 0 < 1e-10 < 1/60 < 2.0 of the code's  *)
(* constants and their position relative to the f32 grid: f32 values are   *)
(* the multiples of F32_GRAIN, and `as f32` rounds to the nearest of them  *)
(* (ties to even), as the cast does.  f64 arithmetic on the integers is    *)
(* exact.                                                                  *)
(***************************************************************************)
EXTENDS Integers, Sequences, FiniteSets, TLC

\* ------------------------------------------------------------------ bounds
\* Values the clock (time::precise_time_s) may return: 0..MaxClock.
MaxClock == 4
\* The accumulated update-CPU time is kept within -MaxCpu..MaxCpu.
MaxCpu == 2
\* Help toggles and grab toggles that take effect in one run.
MaxHelpToggles == 4
MaxGrabToggles == 2
\* Levels in the archive: 0..MaxLevels; configured level index: 0..MaxLevelIndex.
MaxLevels == 2
MaxLevelIndex == 3
\* usize is modelled UsizeBits wide.
UsizeBits == 16

\* ------------------------------------------------------- program constants
\* `as f32` (game.rs:104): the spacing of f32 values on the model's scale.
F32_GRAIN == 5
\* The literal 1e-10 (game.rs:105), before its rounding to f32.
EPS == 4
\* The quotient 1.0 / 60.0 (game.rs:106), before its rounding to f32.
SIXTIETH == 9
\* The literal 2.0 (game.rs:146), an f64.
REPORT_PERIOD == 20

VARIABLES
    \* ---- Game::run: locals of the function
    pc,                 \* position in Game::run
    running,            \* game.rs:100
    mouse_grabbed,      \* game.rs:99
    current_help,       \* game.rs:93
    t0,                 \* game.rs:98
    cum_time,           \* game.rs:95
    cum_updates_time,   \* game.rs:96
    num_frames,         \* game.rs:97
    \* ---- Game::run: locals of one iteration
    frame,              \* game.rs:102, the frame target of this iteration
    t1,                 \* game.rs:103
    delta,              \* game.rs:108
    updates_t0,         \* game.rs:111
    \* ---- collaborators' state that Game::run sets or reads
    short_visible,      \* self.text[short_help]
    long_visible,       \* self.text[long_help]
    mouse_enabled,      \* controller setting, set_mouse_enabled
    cursor_grabbed,     \* controller setting, set_cursor_grabbed
    snapshot,           \* the controller's input snapshot: which gestures poll true
    camera,             \* which player state the player's camera and the scene's
                        \* two matrices come from, relative to the current iteration
    \* ---- what the run has done
    calls,              \* collaborator calls of the current iteration, in order
    used_delta,         \* the delta each call of this iteration was given
    report,             \* the report line of this iteration, or NoReport
    since_reset,        \* the effective deltas accumulated since the last report
    result,             \* how Game::run ended
    nHelp,              \* Help toggles that took effect
    nGrab,              \* Grab toggles that took effect
    \* ---- Game::new
    npc,                \* position in Game::new
    level_index,        \* config.level_index
    num_levels,         \* wad.num_levels(), a property of the archive file
    overflow_checks,    \* whether the build traps on integer overflow
    live,               \* the live locals of Game::new, in declaration order
    game,               \* the fields of the returned Game, in declaration order
    new_result,         \* how Game::new ended
    hint,               \* the upper bound of the range hint in the error message
    \* ---- what Game::new has done
    steps,              \* the steps executed, in order
    created,            \* the resources created, in order of acquisition
    dropped             \* the resources destroyed, in order of destruction

runVars == <<pc, running, mouse_grabbed, current_help, t0, cum_time,
             cum_updates_time, num_frames, frame, t1, delta, updates_t0,
             short_visible, long_visible, mouse_enabled, cursor_grabbed,
             snapshot, camera, calls, used_delta, report, since_reset,
             result, nHelp, nGrab>>

newVars == <<npc, level_index, num_levels, overflow_checks, live, game,
             new_result, hint, steps, created, dropped>>

vars == <<runVars, newVars>>

\* ----------------------------------------------------------------- helpers
ClockValues == 0..MaxClock

\* The value of a local that is not in scope.
NoValue == 0 - 1000

NoReport == [emitted |-> FALSE]

NoSnapshot == [quit |-> FALSE, grab |-> FALSE, help |-> FALSE]

\* A value of f64 `x` converted with `as f32`: the nearest multiple of
\* F32_GRAIN, a tie going to the even multiple.
ToF32(x) ==
    LET q == x \div F32_GRAIN
        r == x % F32_GRAIN
    IN  IF 2 * r < F32_GRAIN THEN q * F32_GRAIN
        ELSE IF 2 * r > F32_GRAIN THEN (q + 1) * F32_GRAIN
        ELSE IF q % 2 = 0 THEN q * F32_GRAIN
        ELSE (q + 1) * F32_GRAIN

\* The measured difference used as it is, without the substitution.
EffectiveDelta_Unclamped(now, last) == ToF32(now - last)

\* game.rs:104-108: the effective delta of a frame that reads `now`
\* when the last timestamp is `last`.
EffectiveDelta(now, last) ==
    LET d == ToF32(now - last)
    IN  IF d < ToF32(EPS) THEN ToF32(SIXTIETH) ELSE d

\* A counter that cycles through the three overlay states.
NextHelp_Cycle3(c) == (c + 1) % 3

\* A counter that is only incremented.
NextHelp_Increment(c) == c + 1

\* game.rs:121: the next value of the overlay counter.
NextHelp(c) == (c % 2) + 1

\* The arm for 1 without the hiding of the short overlay.
HelpMatch_KeepShort(c, short, long) ==
    CASE c = 0 -> <<TRUE, long>>
      [] c = 1 -> <<short, TRUE>>
      [] c = 2 -> <<short, FALSE>>
      [] OTHER -> <<"trap", "trap">>

\* game.rs:122-130: the visibility of <<short, long>> after the match on the
\* new counter value; "trap" for the unreachable!() arm.
HelpMatch(c, short, long) ==
    CASE c = 0 -> <<TRUE, long>>
      [] c = 1 -> <<FALSE, TRUE>>
      [] c = 2 -> <<short, FALSE>>
      [] OTHER -> <<"trap", "trap">>

\* The chain with the Help test first.
Branch_HelpFirst(s) ==
    IF s.help THEN "help"
    ELSE IF s.quit THEN "quit"
    ELSE IF s.grab THEN "grab"
    ELSE "none"

\* game.rs:114-120: the branch of the if / else-if chain taken for a snapshot.
Branch(s) ==
    IF s.quit THEN "quit"
    ELSE IF s.grab THEN "grab"
    ELSE IF s.help THEN "help"
    ELSE "none"

\* A quit that leaves the iteration at once.
AfterDispatch_Break(branch) == IF branch = "quit" THEN "loop" ELSE "update"

\* game.rs:131-133: where control goes after the if / else-if chain: every
\* branch falls through to the update of the player.
AfterDispatch(branch) == "update"

\* The timestamp advanced by the effective delta.
NextTimestamp_Clamped(now, last, d) == last + d

\* game.rs:109: the timestamp kept for the next frame.
NextTimestamp(now, last, d) == now

\* A report as soon as the period is reached.
ReportDue_AtPeriod(sim) == sim >= REPORT_PERIOD

\* game.rs:146: whether a report is due.
ReportDue(sim) == sim > REPORT_PERIOD

\* The camera before the first iteration: the player's is the one Player::new
\* made (game.rs:54); the scene has been given no matrix by Game.
NoCamera == [player |-> "earlier", modelview |-> "unset", projection |-> "unset"]

\* A new iteration begins (game.rs:101): what was of the current iteration is
\* now of an earlier one.
Earlier(cam) ==
    [k \in DOMAIN cam |-> IF cam[k] = "current" THEN "earlier" ELSE cam[k]]

\* The matrices pushed into the scene first, the player updated after.
UpdateCamera_PushFirst(cam) ==
    LET modelview  == [cam EXCEPT !.modelview = cam.player]
        projection == [modelview EXCEPT !.projection = modelview.player]
    IN  [projection EXCEPT !.player = "current"]

\* game.rs:133-135: player.update, then set_modelview and set_projection from
\* self.player.camera().
UpdateCamera(cam) ==
    LET updated    == [cam EXCEPT !.player = "current"]
        modelview  == [updated EXCEPT !.modelview = updated.player]
    IN  [modelview EXCEPT !.projection = modelview.player]

\* TextRenderer::insert (gfx crate): a newly inserted text is visible, as the
\* specification's initial overlay state Short has it.
InsertVisible == TRUE

\* GameController::new (ctrl module): the mouse starts enabled and the cursor
\* grabbed, as the specification's grab-toggle property has it.
ControllerInitial == TRUE

\* ---------------------------------------------------------------- Game::run
RunInit ==
    /\ pc = "entry"
    /\ running = FALSE
    /\ mouse_grabbed = FALSE
    /\ current_help = 0
    /\ t0 = NoValue
    /\ cum_time = 0
    /\ cum_updates_time = 0
    /\ num_frames = 0
    /\ frame = "none"
    /\ t1 = NoValue
    /\ delta = NoValue
    /\ updates_t0 = NoValue
    /\ short_visible = FALSE
    /\ long_visible = FALSE
    /\ mouse_enabled = ControllerInitial
    /\ cursor_grabbed = ControllerInitial
    /\ snapshot = NoSnapshot
    /\ camera = NoCamera
    /\ calls = <<>>
    /\ used_delta = {}
    /\ report = NoReport
    /\ since_reset = <<>>
    /\ result = "none"
    /\ nHelp = 0
    /\ nGrab = 0

\* game.rs:73-100: register the two overlays, hide the long one, set the locals.
Setup ==
    /\ pc = "entry"
    /\ UNCHANGED newVars
    /\ UNCHANGED camera
    /\ \E now \in ClockValues : t0' = now
    /\ short_visible' = InsertVisible
    /\ long_visible' = FALSE
    /\ current_help' = 0
    /\ cum_time' = 0
    /\ cum_updates_time' = 0
    /\ num_frames' = 0
    /\ mouse_grabbed' = TRUE
    /\ running' = TRUE
    /\ pc' = "loop"
    /\ UNCHANGED <<frame, t1, delta, updates_t0, mouse_enabled, cursor_grabbed,
                   snapshot, calls, used_delta, report, since_reset, result,
                   nHelp, nGrab>>

\* game.rs:101-111: the loop test holds; acquire the frame, compute delta.
BeginFrame ==
    /\ pc = "loop"
    /\ UNCHANGED newVars
    /\ running
    /\ \E now \in ClockValues, u0 \in ClockValues :
          /\ t1' = now
          /\ delta' = EffectiveDelta(now, t0)
          /\ t0' = NextTimestamp(now, t0, delta')
          /\ updates_t0' = u0
    /\ since_reset' = IF report.emitted THEN <<>> ELSE since_reset
    /\ frame' = "open"
    /\ camera' = Earlier(camera)
    /\ calls' = <<"window.draw">>
    /\ used_delta' = {}
    /\ report' = NoReport
    /\ pc' = "dispatch"
    /\ UNCHANGED <<running, mouse_grabbed, current_help, cum_time,
                   cum_updates_time, num_frames, short_visible, long_visible,
                   mouse_enabled, cursor_grabbed, snapshot, result, nHelp,
                   nGrab>>

\* game.rs:115
QuitBranch ==
    /\ running' = FALSE
    /\ UNCHANGED <<mouse_grabbed, mouse_enabled, cursor_grabbed, current_help,
                   short_visible, long_visible, nHelp, nGrab>>

\* The grab toggle without the call of set_cursor_grabbed.
GrabBranch_NoCursor ==
    /\ nGrab < MaxGrabToggles
    /\ mouse_grabbed' = ~mouse_grabbed
    /\ mouse_enabled' = mouse_grabbed'
    /\ nGrab' = nGrab + 1
    /\ UNCHANGED <<running, current_help, short_visible, long_visible, nHelp,
                   cursor_grabbed>>

\* game.rs:117-119
GrabBranch ==
    /\ nGrab < MaxGrabToggles
    /\ mouse_grabbed' = ~mouse_grabbed
    /\ mouse_enabled' = mouse_grabbed'
    /\ cursor_grabbed' = mouse_grabbed'
    /\ nGrab' = nGrab + 1
    /\ UNCHANGED <<running, current_help, short_visible, long_visible, nHelp>>

\* game.rs:121-130
HelpBranch ==
    /\ nHelp < MaxHelpToggles
    /\ current_help' = NextHelp(current_help)
    /\ LET v == HelpMatch(current_help', short_visible, long_visible)
       IN  /\ short_visible' = v[1]
           /\ long_visible' = v[2]
    /\ nHelp' = nHelp + 1
    /\ UNCHANGED <<running, mouse_grabbed, mouse_enabled, cursor_grabbed, nGrab>>

\* game.rs:113-131: refresh the snapshot, then the if / else-if chain.
Dispatch ==
    /\ pc = "dispatch"
    /\ UNCHANGED newVars
    /\ UNCHANGED camera
    /\ \E q \in BOOLEAN, g \in BOOLEAN, h \in BOOLEAN :
          /\ snapshot' = [quit |-> q, grab |-> g, help |-> h]
          /\ CASE Branch(snapshot') = "quit" -> QuitBranch
               [] Branch(snapshot') = "grab" -> GrabBranch
               [] Branch(snapshot') = "help" -> HelpBranch
               [] OTHER ->
                    UNCHANGED <<running, mouse_grabbed, mouse_enabled,
                                cursor_grabbed, current_help, short_visible,
                                long_visible, nHelp, nGrab>>
    /\ calls' = Append(calls, "control.update")
    /\ pc' = AfterDispatch(Branch(snapshot'))
    /\ UNCHANGED <<t0, cum_time, cum_updates_time, num_frames, frame, t1, delta,
                   updates_t0, used_delta, report, since_reset, result>>

\* game.rs:133-136: player, camera, level.
Update ==
    /\ pc = "update"
    /\ UNCHANGED newVars
    /\ calls' = calls \o <<"player.update", "scene.set_modelview",
                           "scene.set_projection", "level.update">>
    /\ used_delta' = used_delta \cup {delta}
    /\ camera' = UpdateCamera(camera)
    /\ pc' = "scene"
    /\ UNCHANGED <<running, mouse_grabbed, current_help, t0, cum_time,
                   cum_updates_time, num_frames, frame, t1, delta, updates_t0,
                   short_visible, long_visible, mouse_enabled, cursor_grabbed,
                   snapshot, report, since_reset, result, nHelp, nGrab>>

\* The error noted and the loop carried on.
Unwind_Continue ==
    /\ frame' = "dropped"
    /\ pc' = "loop"

\* What leaves scope when Game::run returns early from inside an iteration.
Unwind ==
    /\ frame' = "dropped"
    /\ pc' = "returned"

\* game.rs:138: scene.render(&mut frame, delta)?
SceneRender ==
    /\ pc = "scene"
    /\ UNCHANGED newVars
    /\ UNCHANGED camera
    /\ calls' = Append(calls, "scene.render")
    /\ used_delta' = used_delta \cup {delta}
    /\ \E ok \in BOOLEAN :
          IF ok
          THEN /\ pc' = "text"
               /\ UNCHANGED <<frame, result>>
          ELSE /\ Unwind
               /\ result' = "err_scene"
    /\ UNCHANGED <<running, mouse_grabbed, current_help, t0, cum_time,
                   cum_updates_time, num_frames, t1, delta, updates_t0,
                   short_visible, long_visible, mouse_enabled, cursor_grabbed,
                   snapshot, report, since_reset, nHelp, nGrab>>

\* game.rs:139: text.render(&mut frame)?
TextRender ==
    /\ pc = "text"
    /\ UNCHANGED newVars
    /\ UNCHANGED camera
    /\ calls' = Append(calls, "text.render")
    /\ \E ok \in BOOLEAN :
          IF ok
          THEN /\ pc' = "telemetry"
               /\ UNCHANGED <<frame, result>>
          ELSE /\ Unwind
               /\ result' = "err_text"
    /\ UNCHANGED <<running, mouse_grabbed, current_help, t0, cum_time,
                   cum_updates_time, num_frames, t1, delta, updates_t0,
                   short_visible, long_visible, mouse_enabled, cursor_grabbed,
                   snapshot, used_delta, report, since_reset, nHelp, nGrab>>

\* The reset without the frame counter.
Telemetry_KeepFrames ==
    /\ pc = "telemetry"
    /\ UNCHANGED newVars
    /\ UNCHANGED camera
    /\ \E u1 \in ClockValues :
          LET cpu == cum_updates_time + (u1 - updates_t0)
              sim == cum_time + delta
              n   == num_frames + 1
          IN  /\ cpu \in -MaxCpu..MaxCpu
              /\ IF ReportDue(sim)
                 THEN /\ report' = [emitted |-> TRUE,
                                    fps_num |-> n, fps_den |-> sim,
                                    cpums_num |-> 1000 * cpu, cpums_den |-> n]
                      /\ cum_time' = 0
                      /\ cum_updates_time' = 0
                      /\ num_frames' = n
                 ELSE /\ report' = NoReport
                      /\ cum_time' = sim
                      /\ cum_updates_time' = cpu
                      /\ num_frames' = n
    /\ since_reset' = Append(since_reset, delta)
    /\ used_delta' = used_delta \cup {delta}
    /\ calls' = Append(calls, "telemetry")
    /\ pc' = "finish"
    /\ UNCHANGED <<running, mouse_grabbed, current_help, t0, frame, t1, delta,
                   updates_t0, short_visible, long_visible, mouse_enabled,
                   cursor_grabbed, snapshot, result, nHelp, nGrab>>

\* game.rs:141-158: accumulate, report and reset when due.
Telemetry ==
    /\ pc = "telemetry"
    /\ UNCHANGED newVars
    /\ UNCHANGED camera
    /\ \E u1 \in ClockValues :
          LET cpu == cum_updates_time + (u1 - updates_t0)
              sim == cum_time + delta
              n   == num_frames + 1
          IN  /\ cpu \in -MaxCpu..MaxCpu
              /\ IF ReportDue(sim)
                 THEN /\ report' = [emitted |-> TRUE,
                                    fps_num |-> n, fps_den |-> sim,
                                    cpums_num |-> 1000 * cpu, cpums_den |-> n]
                      /\ cum_time' = 0
                      /\ cum_updates_time' = 0
                      /\ num_frames' = 0
                 ELSE /\ report' = NoReport
                      /\ cum_time' = sim
                      /\ cum_updates_time' = cpu
                      /\ num_frames' = n
    /\ since_reset' = Append(since_reset, delta)
    /\ used_delta' = used_delta \cup {delta}
    /\ calls' = Append(calls, "telemetry")
    /\ pc' = "finish"
    /\ UNCHANGED <<running, mouse_grabbed, current_help, t0, frame, t1, delta,
                   updates_t0, short_visible, long_visible, mouse_enabled,
                   cursor_grabbed, snapshot, result, nHelp, nGrab>>

\* frame.finish()? in place of frame.finish().expect(..).
Finish_ReturnsErr ==
    /\ pc = "finish"
    /\ UNCHANGED newVars
    /\ UNCHANGED camera
    /\ calls' = Append(calls, "frame.finish")
    /\ \E ok \in BOOLEAN :
          IF ok
          THEN /\ frame' = "none"
               /\ pc' = "loop"
               /\ UNCHANGED result
          ELSE /\ frame' = "lost"
               /\ pc' = "returned"
               /\ result' = "err_finish"
    /\ t1' = NoValue
    /\ delta' = NoValue
    /\ updates_t0' = NoValue
    /\ UNCHANGED <<running, mouse_grabbed, current_help, t0, cum_time,
                   cum_updates_time, num_frames, short_visible, long_visible,
                   mouse_enabled, cursor_grabbed, snapshot, used_delta, report,
                   since_reset, nHelp, nGrab>>

\* game.rs:161-164: frame.finish().expect(..), then the end of the loop body.
Finish ==
    /\ pc = "finish"
    /\ UNCHANGED newVars
    /\ UNCHANGED camera
    /\ calls' = Append(calls, "frame.finish")
    /\ \E ok \in BOOLEAN :
          IF ok
          THEN /\ frame' = "none"
               /\ pc' = "loop"
               /\ UNCHANGED result
          ELSE /\ frame' = "lost"
               /\ pc' = "aborted"
               /\ result' = "panic"
    /\ t1' = NoValue
    /\ delta' = NoValue
    /\ updates_t0' = NoValue
    /\ UNCHANGED <<running, mouse_grabbed, current_help, t0, cum_time,
                   cum_updates_time, num_frames, short_visible, long_visible,
                   mouse_enabled, cursor_grabbed, snapshot, used_delta, report,
                   since_reset, nHelp, nGrab>>

\* Ok(()) returned from the loop test whatever `running` is.
ReturnOk_NoTest ==
    /\ pc = "loop"
    /\ UNCHANGED newVars
    /\ UNCHANGED camera
    /\ result' = "ok"
    /\ pc' = "returned"
    /\ UNCHANGED <<running, mouse_grabbed, current_help, t0, cum_time,
                   cum_updates_time, num_frames, frame, t1, delta, updates_t0,
                   short_visible, long_visible, mouse_enabled, cursor_grabbed,
                   snapshot, calls, used_delta, report, since_reset, nHelp,
                   nGrab>>

\* game.rs:101,165: the loop test fails; Ok(()).
ReturnOk ==
    /\ pc = "loop"
    /\ UNCHANGED newVars
    /\ UNCHANGED camera
    /\ ~running
    /\ result' = "ok"
    /\ pc' = "returned"
    /\ UNCHANGED <<running, mouse_grabbed, current_help, t0, cum_time,
                   cum_updates_time, num_frames, frame, t1, delta, updates_t0,
                   short_visible, long_visible, mouse_enabled, cursor_grabbed,
                   snapshot, calls, used_delta, report, since_reset, nHelp,
                   nGrab>>

\* ---------------------------------------------------------------- Game::new
\* game.rs:25-33: the fields of Game in declaration order, the order in which
\* a dropped Game destroys them.
GameFields == <<"window", "scene", "text", "player", "level", "sdl", "control">>

\* game.rs:36-70: the steps of Game::new in program order.
StepOrder == <<"sdl_init", "window_new", "archive_open", "ensure_level_index",
               "textures", "level_new", "scene_build", "player_new",
               "controller_new", "text_new">>

RECURSIVE Reverse(_)
Reverse(s) == IF s = <<>> THEN <<>> ELSE Append(Reverse(Tail(s)), Head(s))

InSeq(x, s) == \E i \in 1..Len(s) : s[i] = x

UsizeModulus == 2 ^ UsizeBits

\* usize subtraction in a build without overflow checks.
WrappingSub(a, b) == (a - b) % UsizeModulus

\* The condition with the bound included.
LevelIndexValid_Inclusive(index, levels) == index <= levels

\* game.rs:41: the condition of ensure!.
LevelIndexValid(index, levels) == index < levels

\* Locals destroyed in order of declaration.
DropLocals_Forward(locals) == locals

\* The locals of a function leaving scope: destroyed in reverse order of
\* declaration.
DropLocals(locals) == Reverse(locals)

NewInit ==
    /\ npc = "sdl_init"
    /\ level_index \in 0..MaxLevelIndex
    /\ num_levels \in 0..MaxLevels
    /\ overflow_checks \in BOOLEAN
    /\ live = <<>>
    /\ game = <<>>
    /\ new_result = "none"
    /\ hint = NoValue
    /\ steps = <<>>
    /\ created = <<>>
    /\ dropped = <<>>

\* A step succeeds: its resources become live locals.
Acquire(step, resources, next) ==
    /\ steps' = Append(steps, step)
    /\ live' = live \o resources
    /\ created' = created \o resources
    /\ npc' = next
    /\ UNCHANGED <<game, new_result, hint, dropped>>

\* A step fails with `?`: Game::new returns the error and its locals are dropped.
Fail(step, kind) ==
    /\ steps' = Append(steps, step)
    /\ new_result' = kind
    /\ dropped' = dropped \o DropLocals(live)
    /\ live' = <<>>
    /\ npc' = "failed"
    /\ UNCHANGED <<game, created>>

\* game.rs:37
SdlInit ==
    /\ npc = "sdl_init"
    /\ UNCHANGED runVars
    /\ UNCHANGED <<level_index, num_levels, overflow_checks>>
    /\ \E ok \in BOOLEAN :
          IF ok THEN Acquire("sdl_init", <<"sdl">>, "window_new")
          ELSE Fail("sdl_init", "err_sdl") /\ UNCHANGED hint

\* game.rs:38
WindowNew ==
    /\ npc = "window_new"
    /\ UNCHANGED runVars
    /\ UNCHANGED <<level_index, num_levels, overflow_checks>>
    /\ \E ok \in BOOLEAN :
          IF ok THEN Acquire("window_new", <<"window">>, "archive_open")
          ELSE Fail("window_new", "err_window") /\ UNCHANGED hint

\* game.rs:39
ArchiveOpen ==
    /\ npc = "archive_open"
    /\ UNCHANGED runVars
    /\ UNCHANGED <<level_index, num_levels, overflow_checks>>
    /\ \E ok \in BOOLEAN :
          IF ok THEN Acquire("archive_open", <<"wad">>, "ensure_level_index")
          ELSE Fail("archive_open", "err_archive") /\ UNCHANGED hint

\* game.rs:40-45: ensure!(cond, fmt, level_index, num_levels - 1).  The format
\* arguments are evaluated only when the condition fails; num_levels - 1 is a
\* usize subtraction, which for num_levels = 0 panics in a build with overflow
\* checks and wraps in a build without.
EnsureLevelIndex ==
    /\ npc = "ensure_level_index"
    /\ UNCHANGED runVars
    /\ UNCHANGED <<level_index, num_levels, overflow_checks>>
    /\ IF LevelIndexValid(level_index, num_levels)
       THEN Acquire("ensure_level_index", <<>>, "textures")
       ELSE IF num_levels < 1 /\ overflow_checks
            THEN Fail("ensure_level_index", "panic") /\ UNCHANGED hint
            ELSE /\ Fail("ensure_level_index", "err_level_index")
                 /\ hint' = WrappingSub(num_levels, 1)

\* game.rs:46
TexturesFromArchive ==
    /\ npc = "textures"
    /\ UNCHANGED runVars
    /\ UNCHANGED <<level_index, num_levels, overflow_checks>>
    /\ \E ok \in BOOLEAN :
          IF ok THEN Acquire("textures", <<"textures">>, "level_new")
          ELSE Fail("textures", "err_textures") /\ UNCHANGED hint

\* game.rs:48-49: the scene builder, then the level built into it.  When
\* Level::new fails the builder is a live local and is dropped with the rest.
LevelNew ==
    /\ npc = "level_new"
    /\ UNCHANGED runVars
    /\ UNCHANGED <<level_index, num_levels, overflow_checks>>
    /\ \E ok \in BOOLEAN :
          IF ok THEN Acquire("level_new", <<"scene_builder", "level">>, "scene_build")
          ELSE /\ steps' = Append(steps, "level_new")
               /\ created' = Append(created, "scene_builder")
               /\ new_result' = "err_level"
               /\ dropped' = dropped \o DropLocals(Append(live, "scene_builder"))
               /\ live' = <<>>
               /\ npc' = "failed"
               /\ UNCHANGED <<game, hint>>

\* game.rs:50-52: scene.build() takes the builder; the block's value binds
\* level, then scene.
SceneBuild ==
    /\ npc = "scene_build"
    /\ UNCHANGED runVars
    /\ UNCHANGED <<level_index, num_levels, overflow_checks>>
    /\ LET rest == SelectSeq(live, LAMBDA r : r # "scene_builder")
       IN  \E ok \in BOOLEAN :
             IF ok
             THEN /\ steps' = Append(steps, "scene_build")
                  /\ live' = Append(rest, "scene")
                  /\ created' = Append(created, "scene")
                  /\ npc' = "player_new"
                  /\ UNCHANGED <<game, new_result, hint, dropped>>
             ELSE /\ steps' = Append(steps, "scene_build")
                  /\ new_result' = "err_scene_build"
                  /\ dropped' = dropped \o <<"scene_builder">> \o DropLocals(rest)
                  /\ live' = <<>>
                  /\ npc' = "failed"
                  /\ UNCHANGED <<game, created, hint>>

\* game.rs:54-55: Player::new and set_position cannot fail.
PlayerNew ==
    /\ npc = "player_new"
    /\ UNCHANGED runVars
    /\ UNCHANGED <<level_index, num_levels, overflow_checks>>
    /\ Acquire("player_new", <<"player">>, "controller_new")

\* game.rs:57: sdl.event_pump() may fail; GameController::new cannot.
ControllerNew ==
    /\ npc = "controller_new"
    /\ UNCHANGED runVars
    /\ UNCHANGED <<level_index, num_levels, overflow_checks>>
    /\ \E ok \in BOOLEAN :
          IF ok THEN Acquire("controller_new", <<"control">>, "text_new")
          ELSE Fail("controller_new", "err_sdl") /\ UNCHANGED hint

\* game.rs:59
TextRendererNew ==
    /\ npc = "text_new"
    /\ UNCHANGED runVars
    /\ UNCHANGED <<level_index, num_levels, overflow_checks>>
    /\ \E ok \in BOOLEAN :
          IF ok THEN Acquire("text_new", <<"text">>, "assemble")
          ELSE Fail("text_new", "err_text") /\ UNCHANGED hint

\* game.rs:61-70: the locals named in the struct literal move into the Game;
\* the others (wad, textures) leave scope as Game::new returns.
Assemble ==
    /\ npc = "assemble"
    /\ UNCHANGED runVars
    /\ UNCHANGED <<level_index, num_levels, overflow_checks>>
    /\ game' = GameFields
    /\ dropped' = dropped \o DropLocals(SelectSeq(live, LAMBDA r : ~InSeq(r, GameFields)))
    /\ live' = <<>>
    /\ new_result' = "ok"
    /\ npc' = "assembled"
    /\ UNCHANGED <<hint, steps, created>>

\* The caller drops the Game: its fields are destroyed in declaration order.
DropGame ==
    /\ npc = "assembled"
    /\ UNCHANGED runVars
    /\ UNCHANGED <<level_index, num_levels, overflow_checks>>
    /\ dropped' = dropped \o game
    /\ game' = <<>>
    /\ npc' = "dropped"
    /\ UNCHANGED <<live, new_result, hint, steps, created>>

\* The state of Game::new's variables once it has returned a Game.
Assembled ==
    /\ npc = "assembled"
    /\ level_index = 0
    /\ num_levels = 1
    /\ overflow_checks = FALSE
    /\ live = <<>>
    /\ game = GameFields
    /\ new_result = "ok"
    /\ hint = NoValue
    /\ steps = StepOrder
    /\ created = <<"sdl", "window", "wad", "textures", "scene_builder", "level",
                   "scene", "player", "control", "text">>
    /\ dropped = <<"textures", "wad">>

Init == RunInit /\ Assembled

InitNew == NewInit /\ RunInit

Next ==
    \/ Setup
    \/ BeginFrame
    \/ Dispatch
    \/ Update
    \/ SceneRender
    \/ TextRender
    \/ Telemetry
    \/ Finish
    \/ ReturnOk

Spec == Init /\ [][Next]_vars

\* Game::run on one thread with every collaborator call returning: a step that
\* can be taken is taken.
SpecFair == Spec /\ WF_vars(Next)

NextNew ==
    \/ SdlInit
    \/ WindowNew
    \/ ArchiveOpen
    \/ EnsureLevelIndex
    \/ TexturesFromArchive
    \/ LevelNew
    \/ SceneBuild
    \/ PlayerNew
    \/ ControllerNew
    \/ TextRendererNew
    \/ Assemble
    \/ DropGame

SpecNew == InitNew /\ [][NextNew]_vars

\* ------------------------------------------------------------------ claims
\* The collaborator calls of a complete iteration (game.rs:102-163).
FrameCalls == <<"window.draw", "control.update", "player.update",
                "scene.set_modelview", "scene.set_projection", "level.update",
                "scene.render", "text.render", "telemetry", "frame.finish">>

InFrame == {"dispatch", "update", "scene", "text", "telemetry", "finish"}

RECURSIVE SumSeq(_)
SumSeq(s) == IF s = <<>> THEN 0 ELSE Head(s) + SumSeq(Tail(s))

\* C1: the overlay transition table.  Once the overlays are registered, the
\* state is Short (short visible, long hidden) before any Help toggle has taken
\* effect; after the k-th effective toggle it is Long (short hidden, long
\* visible) for odd k and Hidden (both hidden) for even k >= 2.  The short
\* overlay is therefore visible only while no toggle has taken effect.
C1_OverlayTable ==
    pc # "entry" =>
        /\ (nHelp = 0 => short_visible = TRUE /\ long_visible = FALSE)
        /\ (nHelp >= 1 /\ nHelp % 2 = 1 =>
                short_visible = FALSE /\ long_visible = TRUE)
        /\ (nHelp >= 1 /\ nHelp % 2 = 0 =>
                short_visible = FALSE /\ long_visible = FALSE)

\* C1: the third toggle has taken effect and the state is Long again.
C1_Witness ==
    nHelp = 3 /\ short_visible = FALSE /\ long_visible = TRUE

\* C2: gesture priority Quit > Grab toggle > Help toggle, first match wins.  In
\* the dispatch step of a frame only the effect of the highest-priority gesture
\* that polls true is applied: with Quit true only `running` is cleared (the
\* grab flag, the controller settings and the overlay state are unchanged);
\* with Grab true and Quit false only the grab flag and the controller settings
\* change; with only Help true only the overlay state changes; with none true
\* nothing changes.
C2_GesturePriority ==
    [][ pc = "dispatch" =>
          /\ (snapshot'.quit =>
                /\ running' = FALSE
                /\ UNCHANGED <<mouse_grabbed, mouse_enabled, cursor_grabbed,
                               current_help, short_visible, long_visible>>)
          /\ (~snapshot'.quit /\ snapshot'.grab =>
                /\ mouse_grabbed' = ~mouse_grabbed
                /\ UNCHANGED <<running, current_help, short_visible,
                               long_visible>>)
          /\ (~snapshot'.quit /\ ~snapshot'.grab /\ snapshot'.help =>
                /\ current_help' # current_help
                /\ UNCHANGED <<running, mouse_grabbed, mouse_enabled,
                               cursor_grabbed>>)
          /\ (~snapshot'.quit /\ ~snapshot'.grab /\ ~snapshot'.help =>
                UNCHANGED <<running, mouse_grabbed, mouse_enabled,
                            cursor_grabbed, current_help, short_visible,
                            long_visible>>)
      ]_vars

\* C2: a frame in which Quit, Grab and Help all polled true has been
\* dispatched, after toggles of both kinds had taken effect.
C2_Witness ==
    /\ pc = "update"
    /\ snapshot = [quit |-> TRUE, grab |-> TRUE, help |-> TRUE]
    /\ running = FALSE
    /\ nHelp = 1
    /\ nGrab = 1

\* C3 as stated: in the iteration in which the quit gesture polls true every
\* step from the player update to frame.finish() is performed, and after that
\* iteration no frame is acquired and no iteration starts.
C3_Original ==
    [][ /\ (pc \in InFrame /\ pc' \notin InFrame /\ snapshot'.quit =>
              calls' = FrameCalls)
        /\ (pc = "loop" /\ ~running => pc' = "returned" /\ frame' = "none")
      ]_vars

\* C3, amended: in the iteration in which the quit gesture polls true, unless
\* scene.render or text.render fails in it (Game::run then returns that error at
\* once, as in any iteration), every step from the player update to
\* frame.finish() is performed; the iteration ends with `running` false, and
\* from there Game::run only returns: no frame is acquired, no iteration starts.
C3_QuitAfterFrame ==
    [][ /\ (pc \in InFrame /\ pc' \notin InFrame /\ snapshot'.quit =>
              /\ running' = FALSE
              /\ pc' \in {"loop", "returned", "aborted"}
              /\ (result' \notin {"err_scene", "err_text"} => calls' = FrameCalls)
              /\ (result' = "err_scene" =>
                    calls' = SubSeq(FrameCalls, 1, 7) /\ pc' = "returned")
              /\ (result' = "err_text" =>
                    calls' = SubSeq(FrameCalls, 1, 8) /\ pc' = "returned"))
        /\ (pc = "loop" /\ ~running =>
              pc' = "returned" /\ frame' = "none" /\ calls' = calls)
      ]_vars

\* C3: Game::run has returned Ok(()) after a complete iteration in which the
\* quit gesture polled true.
C3_Witness ==
    /\ pc = "returned"
    /\ result = "ok"
    /\ snapshot.quit
    /\ calls = FrameCalls
    /\ frame = "none"

\* The resources a Game owns (game.rs:25-33).
InstanceResources == {"window", "scene", "text", "player", "level", "sdl", "control"}

OfInstance(s) == SelectSeq(s, LAMBDA r : r \in InstanceResources)

IsPrefix(s, t) == Len(s) <= Len(t) /\ s = SubSeq(t, 1, Len(s))

\* C4 as stated, for the runs that reach the level-index check on an archive
\* that has levels (an archive without levels is the case of C5): with
\* level_index >= num_levels Game::new fails with the level-index error and no
\* window has been created at any point of the run.
C4_Original ==
    (/\ InSeq("ensure_level_index", steps)
     /\ num_levels >= 1
     /\ level_index >= num_levels) =>
        /\ new_result = "err_level_index"
        /\ ~InSeq("window", created)

\* C4, amended: with level_index >= num_levels Game::new never returns a Game
\* and never creates a texture directory, scene builder, level, scene, player,
\* controller or text renderer.  The check comes after the platform context,
\* the window and the archive have been created: when it is reached these three
\* exist, the run fails there, and they are destroyed (archive, window,
\* platform context) as Game::new ends; for num_levels >= 1 the failure is the
\* level-index error, with range hint num_levels - 1.
C4_LevelIndexFailure ==
    level_index >= num_levels =>
        /\ new_result # "ok"
        /\ game = <<>>
        /\ IsPrefix(created, <<"sdl", "window", "wad">>)
        /\ (InSeq("ensure_level_index", steps) =>
              /\ npc = "failed"
              /\ created = <<"sdl", "window", "wad">>
              /\ dropped = <<"wad", "window", "sdl">>
              /\ live = <<>>
              /\ (num_levels >= 1 =>
                    new_result = "err_level_index" /\ hint = num_levels - 1))

\* C4: the level-index check has failed on an archive that has levels, and the
\* window created before it has been destroyed.
C4_Witness ==
    /\ npc = "failed"
    /\ new_result = "err_level_index"
    /\ num_levels >= 1
    /\ level_index > num_levels
    /\ InSeq("window", dropped)

\* C5 as stated: for every num_levels >= 0 and level_index >= num_levels the
\* level-index validation ends in an error value, never in a crash, and the
\* upper bound of its range hint is num_levels - 1, computed without underflow.
C5_Original ==
    (InSeq("ensure_level_index", steps) /\ level_index >= num_levels) =>
        /\ new_result = "err_level_index"
        /\ hint = num_levels - 1

\* C6 as stated: when the effective deltas since the last report sum to
\* exactly 2.0 at frame N, a report is emitted at frame N with fps = N / 2.0
\* and the three accumulators are zero immediately after.
C6_Original ==
    (pc = "finish" /\ SumSeq(since_reset) = REPORT_PERIOD) =>
        /\ report.emitted
        /\ report.fps_num * REPORT_PERIOD = Len(since_reset) * report.fps_den
        /\ cum_time = 0
        /\ cum_updates_time = 0
        /\ num_frames = 0

\* C6, amended: a report is emitted at frame N exactly when the effective
\* deltas since the last report sum to more than 2.0 at frame N; it carries
\* fps = N / sum, and the three accumulators are zero immediately after.  When
\* the sum is exactly 2.0 (or less) at frame N no report is emitted at frame N
\* and the accumulators keep the sum and the count N.
C6_ReportOnExceed ==
    pc = "finish" =>
        LET N == Len(since_reset)
            S == SumSeq(since_reset)
        IN  /\ report.emitted = (S > REPORT_PERIOD)
            /\ (report.emitted =>
                  /\ report.fps_num = N
                  /\ report.fps_den = S
                  /\ cum_time = 0
                  /\ cum_updates_time = 0
                  /\ num_frames = 0)
            /\ (~report.emitted => cum_time = S /\ num_frames = N)

\* C6: the sum was exactly 2.0 at the second frame, and the report came with
\* the third.
C6_Witness ==
    /\ pc = "finish"
    /\ report.emitted
    /\ Len(since_reset) = 3
    /\ SumSeq(SubSeq(since_reset, 1, 2)) = REPORT_PERIOD
    /\ cum_time = 0

\* C7: the grab toggle.  The mouse-grabbed flag is true once Game::run has set
\* its locals; after k effective grab toggles the flag and the controller's
\* mouse-enabled and cursor-grabbed settings all equal (k is even): false after
\* the first, true again after the second.  No other step changes them.
C7_GrabToggle ==
    /\ mouse_enabled = (nGrab % 2 = 0)
    /\ cursor_grabbed = (nGrab % 2 = 0)
    /\ (pc # "entry" => mouse_grabbed = (nGrab % 2 = 0))

\* C7: the second grab toggle has taken effect and both settings are true
\* again, in a run in which a Help toggle and later frames happened too.
C7_Witness ==
    /\ nGrab = 2
    /\ nHelp >= 1
    /\ mouse_enabled = TRUE
    /\ cursor_grabbed = TRUE
    /\ pc = "finish"

\* C8 as stated: with d = now - last_timestamp the effective delta is 1/60
\* whenever d < 1e-10 and d itself otherwise; last_timestamp becomes now.
C8_Original ==
    [][ (pc = "loop" /\ pc' = "dispatch") =>
          /\ delta' = (IF t1' - t0 < EPS THEN ToF32(SIXTIETH) ELSE t1' - t0)
          /\ t0' = t1'
      ]_vars

\* C8, amended: with d = (now - last_timestamp) converted to f32, the
\* effective delta is the f32 value of 1/60 whenever d is below the f32 value of
\* 1e-10, and d otherwise; last_timestamp is set to the clock value read, the
\* unclamped now, in both cases.
C8_DeltaSubstitution ==
    [][ (pc = "loop" /\ pc' = "dispatch") =>
          LET d == ToF32(t1' - t0)
          IN  /\ (d < ToF32(EPS) => delta' = ToF32(SIXTIETH))
              /\ (d >= ToF32(EPS) => delta' = d)
              /\ t0' = t1'
      ]_vars

\* C8: a frame whose delta was substituted, its timestamp being the clock
\* value read, which lies before the previous frame's.
C8_Witness ==
    /\ pc = "dispatch"
    /\ delta = ToF32(SIXTIETH)
    /\ t0 = t1
    /\ t1 = 0
    /\ num_frames >= 1

\* C9 as stated: the steps of Game::new run in the fixed order; a failing step
\* ends the run with an error value returned to the caller; a Game is returned
\* only when every step has succeeded.
C9_Original ==
    /\ IsPrefix(steps, StepOrder)
    /\ (npc = "failed" =>
          /\ new_result \in {"err_sdl", "err_window", "err_archive",
                             "err_level_index", "err_textures", "err_level",
                             "err_scene_build", "err_text"}
          /\ game = <<>>)
    /\ (new_result = "ok" => steps = StepOrder)
    /\ (game # <<>> => new_result = "ok")

RenderErrors == {"err_scene", "err_text"}

Last(s) == s[Len(s)]

\* C11: render errors end the loop by propagation.  A step in which
\* scene.render or text.render fails ends Game::run with that error in the same
\* iteration: after a scene-render failure the calls of the iteration stop at
\* scene.render (the text overlay is not rendered), after a text-render failure
\* at text.render; in both the telemetry accumulators are left as they were,
\* frame.finish() is not called on the frame, which goes out of scope unfinished,
\* and once Game::run has returned no iteration starts and nothing else runs.
C11_RenderErrorPropagates ==
    [][ /\ (result' \in RenderErrors =>
              /\ pc \in {"scene", "text"}
              /\ (result' = "err_scene") = (pc = "scene")
              /\ pc' = "returned"
              /\ frame' = "dropped"
              /\ calls' = (IF result' = "err_scene" THEN SubSeq(FrameCalls, 1, 7)
                           ELSE SubSeq(FrameCalls, 1, 8))
              /\ UNCHANGED <<cum_time, cum_updates_time, num_frames, report,
                             since_reset>>)
        /\ (pc = "returned" => FALSE)
      ]_vars

\* C11: scene.render has failed in an iteration that came after a complete
\* one, in which no quit was polled, and Game::run has returned the error.
C11_Witness ==
    /\ pc = "returned"
    /\ result = "err_scene"
    /\ frame = "dropped"
    /\ calls = SubSeq(FrameCalls, 1, 7)
    /\ num_frames >= 1
    /\ ~snapshot.quit

\* C12: a failure to present the frame is fatal.  The step from frame.finish()
\* either presents the frame and goes back to the loop test, or aborts with the
\* panic of expect(..); Game::run returns a value other than Ok(()) only from a
\* failed scene.render or text.render, never from frame.finish(); in the
\* aborting iteration frame.finish() was called once, and after the abort
\* nothing runs: no retry, no further iteration.
C12_PresentFailureFatal ==
    [][ /\ (pc = "finish" =>
              \/ pc' = "loop" /\ frame' = "none" /\ result' = result
              \/ pc' = "aborted" /\ frame' = "lost" /\ result' = "panic")
        /\ (pc' = "returned" /\ result' # "ok" =>
              /\ result' \in RenderErrors
              /\ Last(calls') \in {"scene.render", "text.render"})
        /\ (result' = "panic" => pc' = "aborted" /\ calls' = FrameCalls)
        /\ (pc = "aborted" => FALSE)
      ]_vars

\* C12: frame.finish() has failed in an iteration in which no quit was polled,
\* after an earlier frame had been presented.
C12_Witness ==
    /\ pc = "aborted"
    /\ result = "panic"
    /\ frame = "lost"
    /\ calls = FrameCalls
    /\ running
    /\ Len(since_reset) >= 2

CurrentCamera ==
    [player |-> "current", modelview |-> "current", projection |-> "current"]

\* C13: per-frame ordering.  The collaborator calls of an iteration are always
\* an initial part of: window.draw, controller.update (with the gesture
\* dispatch), player.update, scene.set_modelview, scene.set_projection,
\* level.update, scene.render, text.render, (telemetry,) frame.finish; an
\* iteration that goes back to the loop test has made them all.  Whenever
\* scene.render is about to run or has run in the iteration, the scene's two
\* matrices are those of the player's camera as updated in this iteration; and
\* the frame of the iteration stays the one window.draw acquired until
\* frame.finish, so text.render draws after scene.render into the same frame.
C13_FrameOrder ==
    /\ IsPrefix(calls, FrameCalls)
    /\ (pc \in InFrame => frame = "open" /\ calls # <<>>)
    /\ (pc = "loop" /\ calls # <<>> => calls = FrameCalls)
    /\ (pc \in {"scene", "text", "telemetry", "finish"} => camera = CurrentCamera)
    /\ (InSeq("scene.render", calls) => camera = CurrentCamera)
    /\ (InSeq("text.render", calls) =>
          /\ InSeq("scene.render", calls)
          /\ frame \in {"open", "none", "dropped", "lost"})

\* C13: the second iteration has completed, its camera pushed after its own
\* player update.
C13_Witness ==
    /\ pc = "loop"
    /\ calls = FrameCalls
    /\ camera = CurrentCamera
    /\ num_frames = 2
    /\ frame = "none"

Failures == RenderErrors \cup {"panic"}

\* C15: loop termination.  Game::run returns Ok(()) only at the end of a
\* complete iteration in which the quit gesture polled true.  With every call
\* returning: once the quit gesture has polled true, Game::run eventually
\* returns Ok(()) unless a render or present failure ends it; and as long as
\* quit has not polled true and no failure has occurred, the loop starts a new
\* iteration again and again.
C15_LoopTermination ==
    /\ [](result = "ok" =>
            /\ pc = "returned"
            /\ snapshot.quit
            /\ ~running
            /\ calls = FrameCalls
            /\ frame = "none")
    /\ ((pc = "update" /\ snapshot.quit) ~> (result = "ok" \/ result \in Failures))
    /\ []<>(pc = "dispatch" \/ snapshot.quit \/ result \in Failures)

\* C15: Game::run has returned Ok(()) after several iterations, the quit gesture
\* having polled true in the last one only after a grab toggle in an earlier one.
C15_Witness ==
    /\ pc = "returned"
    /\ result = "ok"
    /\ snapshot.quit
    /\ Len(since_reset) >= 3
    /\ nGrab = 1

\* C16: telemetry accumulation and reset.  The telemetry step adds the effective
\* delta to the simulation-time accumulator, the measured update time to the
\* CPU-time accumulator and one to the frame counter; it emits a report exactly
\* when the simulation-time accumulator then exceeds 2.0, computed from the
\* accumulators as they are at that point (so the frame counter it divides by is
\* at least 1 and the time it divides by is above 2.0), and then sets all three
\* accumulators to zero.  No other step of the loop changes them, and in every
\* state between steps the simulation-time accumulator is within 0..2.0.
C16_TelemetryAccumulation ==
    [][ /\ (pc = "telemetry" =>
              LET sim == cum_time + delta
                  n   == num_frames + 1
              IN  /\ report'.emitted = (sim > REPORT_PERIOD)
                  /\ (report'.emitted =>
                        /\ report'.fps_num = n
                        /\ report'.fps_den = sim
                        /\ report'.cpums_den = n
                        /\ report'.cpums_den >= 1
                        /\ report'.fps_den > REPORT_PERIOD
                        /\ cum_time' = 0
                        /\ cum_updates_time' = 0
                        /\ num_frames' = 0)
                  /\ (~report'.emitted =>
                        /\ cum_time' = sim
                        /\ num_frames' = n
                        /\ (cum_updates_time' - cum_updates_time) + updates_t0
                              \in ClockValues))
        /\ (pc \notin {"telemetry", "entry"} =>
              UNCHANGED <<cum_time, cum_updates_time, num_frames>>)
        /\ cum_time' \in 0..REPORT_PERIOD
        /\ num_frames' >= 0
      ]_vars

\* C16: a report has been emitted at the fourth frame since the last reset, the
\* update-CPU time accumulated being non-zero, and the three accumulators are
\* zero.
C16_Witness ==
    /\ pc = "finish"
    /\ report.emitted
    /\ report.fps_num = 4
    /\ report.cpums_num # 0
    /\ cum_time = 0
    /\ cum_updates_time = 0
    /\ num_frames = 0

\* C17: the range of the overlay counter.  current_help is 0 until a Help
\* toggle takes effect; it changes only in a dispatch step that takes the Help
\* branch, to current_help % 2 + 1, which is 1 or 2: the match never takes the
\* arm for 0 nor the unreachable!() arm, and the counter stays within {0, 1, 2}.
C17_CounterRange ==
    /\ current_help = 0
    /\ nHelp = 0
    /\ [][ /\ current_help' \in {0, 1, 2}
           /\ (nHelp' = 0 => current_help' = 0)
           /\ (nHelp' >= 1 => current_help' \in {1, 2})
           /\ (current_help' # current_help \/ nHelp' # nHelp =>
                 /\ pc = "dispatch"
                 /\ Branch(snapshot') = "help"
                 /\ nHelp' = nHelp + 1
                 /\ current_help' = (current_help % 2) + 1
                 /\ current_help' \in {1, 2})
           /\ short_visible' \in BOOLEAN
           /\ long_visible' \in BOOLEAN
         ]_vars

\* C17: the fourth Help toggle has taken effect and the counter is 2.
C17_Witness ==
    /\ nHelp = 4
    /\ current_help = 2
    /\ pc = "loop"

\* C18: mutual exclusion of the help overlays.  Once the two overlays are
\* registered and the long one hidden, in every state at most one of the two is
\* visible, whatever gestures have been polled.
C18_OverlayExclusion ==
    pc # "entry" =>
        /\ short_visible \in BOOLEAN
        /\ long_visible \in BOOLEAN
        /\ ~(short_visible /\ long_visible)

\* C18: the long overlay is the visible one after grab toggles and Help toggles
\* in earlier frames, and a quit in the last.
C18_Witness ==
    /\ pc = "returned"
    /\ nHelp = 3
    /\ nGrab = 2
    /\ snapshot.quit
    /\ long_visible = TRUE
    /\ short_visible = FALSE

\* C19: the effective delta is positive and used consistently.  In every frame
\* the delta is at least 1e-10 (so above zero), also when the clock read is at
\* or before the last timestamp; player.update, level.update, scene.render and
\* the simulation-time accumulator are all given that one value; and the
\* accumulator grows at every telemetry step that emits no report and otherwise
\* never changes except by the reset to zero that goes with a report.
C19_PositiveDelta ==
    [][ /\ (pc' \in InFrame =>
              /\ delta' >= EPS
              /\ delta' > 0
              /\ used_delta' \subseteq {delta'})
        /\ (pc = "loop" /\ pc' = "dispatch" /\ t1' <= t0 =>
              delta' = ToF32(SIXTIETH))
        /\ (pc' = "finish" =>
              /\ used_delta' = {delta'}
              /\ Last(since_reset') = delta')
        /\ (pc = "telemetry" /\ ~report'.emitted =>
              cum_time' = cum_time + delta /\ cum_time' > cum_time)
        /\ (cum_time' >= cum_time \/ (cum_time' = 0 /\ report'.emitted))
      ]_vars

\* C19: the second frame read a clock value before the first frame's, and its
\* substituted delta has been used by the updates, the render and telemetry.
C19_Witness ==
    /\ pc = "finish"
    /\ since_reset = <<ToF32(EPS), ToF32(SIXTIETH)>>
    /\ t1 = 0
    /\ used_delta = {ToF32(SIXTIETH)}
    /\ cum_time = ToF32(EPS) + ToF32(SIXTIETH)

====
